---- MODULE Spec2Model ----
(***************************************************************************)
(* Model of the window-manager core of glazewm (packages/wm):              *)
(*   - the container tree: TilingBehavior::insert_tiling_child             *)
(*     (containers/traits/tiling_behavior.rs), containers constructed      *)
(*     with no parent (windows/non_tiling_window.rs);                      *)
(*   - the pointer-move pipeline: handle_mouse_move, handle_alt_snap and   *)
(*     handle_focus_on_hover (common/events/handle_mouse_move.rs).         *)
(* Containers are identified by small integers; the Rc<RefCell<..>> graph  *)
(* becomes two functions, children (owned sequence) and parent (stored     *)
(* back-reference).                                                        *)
(***************************************************************************)
EXTENDS Integers, Sequences, FiniteSets, TLC

\* ------------------------------------------------------------------ bounds
NumContainers == 3
MaxChildren == 2
MaxOps == 4
NumHandles == 2
MaxCalls == 4

\* the absent value of an Option<..>
None == 0

Containers == 1..NumContainers

VARIABLES
  children,     \* container -> its Vec<TilingContainer>
  parent,       \* container -> its stored Option<TilingContainer>
  panicked,     \* the thread unwound out of a tree operation
  nOps,         \* tree operations performed so far
  lastOp,       \* the last tree operation, its arguments and what held before it
  conforming,   \* every insert so far met the documented precondition
  focused,      \* WmState: the focused container (None when there is none)
  pending_sync, \* WmState.pending_sync
  alt_snap,     \* AltSnap: old_mouse_position, is_currently_moving
  managed,      \* WmState: handles that have a Window in the index
  window_state, \* handle -> the WindowState of its window
  lastEvent,    \* the last pointer event, its platform calls, its result
  native,       \* one NativeWindow: its caches, its locks, its last call
  manage        \* NativeWindow::is_manageable: the window queried, the answer

treeVars == <<children, parent, panicked, nOps, lastOp, conforming>>
mouseVars == <<focused, pending_sync, alt_snap, managed, window_state,
              lastEvent>>
nativeVars == <<native, manage>>
vars == <<children, parent, panicked, nOps, lastOp, conforming,
          focused, pending_sync, alt_snap, managed, window_state, lastEvent,
          native, manage>>

\* ------------------------------------------------------- container tree
Range(s) == {s[i] : i \in 1..Len(s)}

\* Vec::insert(index, x) for 0 <= index <= len
VecInsert(s, index, x) ==
  SubSeq(s, 1, index) \o <<x>> \o SubSeq(s, index + 1, Len(s))

\* p owns c: c occurs in p's children sequence
Owns(p, c) == c \in Range(children[p])

Owners(c) == {p \in Containers : Owns(p, c)}

\* c is in no children sequence and stores no parent
Detached(c) == parent[c] = None /\ Owners(c) = {}

RECURSIVE OwnedWithin(_, _)
\* the containers reachable from the set S in at most n ownership steps
OwnedWithin(S, n) ==
  IF n = 0 THEN S
  ELSE OwnedWithin(S \cup {c \in Containers : \E p \in S : Owns(p, c)}, n - 1)

\* a is p itself or owns p through some chain of children sequences
AncestorOrSelf(a, p) == p \in OwnedWithin({a}, NumContainers)

NoOp == [op |-> "none", target |-> None, index |-> 0, child |-> None,
         detached |-> FALSE, ancestor |-> FALSE, result |-> "ok"]

TreeInit ==
  /\ children = [c \in Containers |-> <<>>]
  /\ parent = [c \in Containers |-> None]
  /\ panicked = FALSE
  /\ nOps = 0
  /\ lastOp = NoOp
  /\ conforming = TRUE

\* the parent reference insert_tiling_child stores into the child
InsertedParentRef(self, child) == child

\* self.insert_tiling_child(target_index, child)
InsertTilingChild(self, target_index, child) ==
  /\ ~panicked
  /\ nOps < MaxOps
  /\ Len(children[self]) < MaxChildren
  /\ nOps' = nOps + 1
  /\ lastOp' = [op |-> "insert", target |-> self, index |-> target_index,
                child |-> child, detached |-> Detached(child),
                ancestor |-> AncestorOrSelf(child, self),
                result |-> IF target_index <= Len(children[self])
                           THEN "ok" ELSE "panic"]
  /\ conforming' = (conforming /\ Detached(child)
                    /\ ~AncestorOrSelf(child, self)
                    /\ target_index <= Len(children[self]))
  /\ IF target_index <= Len(children[self])
     THEN /\ children' = [children EXCEPT
                            ![self] = VecInsert(@, target_index, child)]
          /\ parent' = [parent EXCEPT ![child] = InsertedParentRef(self, child)]
          /\ panicked' = FALSE
     ELSE \* Vec::insert panics when index > len, before anything is written
          /\ panicked' = TRUE
          /\ UNCHANGED <<children, parent>>
  /\ UNCHANGED mouseVars
  /\ UNCHANGED nativeVars

RECURSIVE RemoveFirst(_, _)
RemoveFirst(s, x) ==
  IF s = <<>> THEN <<>>
  ELSE IF Head(s) = x THEN Tail(s)
  ELSE <<Head(s)>> \o RemoveFirst(Tail(s), x)

\* detach(child): out of its stored parent's children, parent reference cleared
DetachChild(child) ==
  /\ ~panicked
  /\ nOps < MaxOps
  /\ parent[child] # None
  /\ nOps' = nOps + 1
  /\ lastOp' = [NoOp EXCEPT !.op = "detach", !.child = child,
                            !.target = parent[child]]
  /\ children' = [children EXCEPT ![parent[child]] = RemoveFirst(@, child)]
  /\ parent' = [parent EXCEPT ![child] = None]
  /\ UNCHANGED <<panicked, conforming>>
  /\ UNCHANGED mouseVars
  /\ UNCHANGED nativeVars

TreeNext ==
  \/ \E self \in Containers, child \in Containers, i \in 0..(MaxChildren) :
       InsertTilingChild(self, i, child)
  \/ \E child \in Containers : DetachChild(child)

\* ------------------------------------------------- pointer-move pipeline
\* a failed platform call (the Err of an anyhow::Result)
Err == -1

\* native window handles; the Window of a managed handle h has identity h
Handles == 1..NumHandles

\* a container that is no window (the workspace), focusable like any other
WorkspaceId == NumHandles + 1

\* the None of an Option<Point>
NoPoint == <<>>

\* the screen points pointer events carry
Points == {<<100, 100>>, <<110, 95>>}

\* the frame origins (left, top) DwmGetWindowAttribute answers with
Frames == {<<0, 0>>, <<-400, -400>>}

NoEvent == [handler |-> "none", is_mouse_down |-> FALSE, ffc |-> FALSE,
            point |-> <<0, 0>>, result |-> "Ok", calls |-> <<>>,
            queries |-> <<>>, hit |-> None, root |-> None, window |-> None,
            set_pos |-> <<>>, modifier |-> FALSE, frame |-> NoPoint,
            pre |-> [focused |-> None, focus_change |-> FALSE,
                     containers_to_redraw |-> {},
                     old_mouse_position |-> NoPoint,
                     is_currently_moving |-> FALSE]]

\* the process-scoped state an event may write, as it is right now
Snapshot == [focused |-> focused,
             focus_change |-> pending_sync.focus_change,
             containers_to_redraw |-> pending_sync.containers_to_redraw,
             old_mouse_position |-> alt_snap.old_mouse_position,
             is_currently_moving |-> alt_snap.is_currently_moving]

MouseInit ==
  /\ managed \in SUBSET Handles
  /\ focused \in managed \cup {WorkspaceId, None}
  /\ pending_sync = [focus_change |-> FALSE, containers_to_redraw |-> {}]
  /\ alt_snap = [old_mouse_position |-> NoPoint, is_currently_moving |-> FALSE]
  /\ window_state = [h \in Handles |-> "Tiling"]
  /\ lastEvent = NoEvent

\* state.window_from_native(&root): the index lookup, None on a miss
WindowFromNative(h) == IF h \in managed THEN h ELSE None

\* set_focused_descendant(window.as_container(), None): the new focus
SetFocusedDescendant(window) == window

\* handle_focus_on_hover without the button test of its early return
FocusIgnoredButtonBlind(is_mouse_down, focus_follows_cursor) ==
  ~focus_follows_cursor

\* handle_focus_on_hover without the configuration test of its early return
FocusIgnoredConfigBlind(is_mouse_down, focus_follows_cursor) ==
  is_mouse_down

\* the early return of handle_focus_on_hover
FocusIgnored(is_mouse_down, focus_follows_cursor) ==
  is_mouse_down \/ ~focus_follows_cursor

\* the identity test dropped: every hover refocuses
FocusDiffersAlways(focused_id, window_id) == TRUE

\* focused_container.id() != window.id()
FocusDiffers(focused_id, window_id) == focused_id # window_id

\* the lookup miss turned into an error (`.context(..)?` on the lookup)
HoverOnWindowMissFails(window) ==
  IF window = None \/ focused = None
  THEN [result |-> "Err", focused |-> focused,
        focus_change |-> pending_sync.focus_change]
  ELSE IF focused # window
  THEN [result |-> "Ok", focused |-> window, focus_change |-> TRUE]
  ELSE [result |-> "Ok", focused |-> focused,
        focus_change |-> pending_sync.focus_change]

\* what the lookup result of handle_focus_on_hover leads to
\* (window is None on a lookup miss)
HoverOnWindow(window) ==
  IF window = None
  THEN [result |-> "Ok", focused |-> focused,
        focus_change |-> pending_sync.focus_change]
  ELSE IF focused = None
  THEN [result |-> "Err", focused |-> focused,
        focus_change |-> pending_sync.focus_change]
  ELSE IF FocusDiffers(focused, window)
  THEN [result |-> "Ok", focused |-> SetFocusedDescendant(window),
        focus_change |-> TRUE]
  ELSE [result |-> "Ok", focused |-> focused,
        focus_change |-> pending_sync.focus_change]

\* handle_focus_on_hover(event, state, config); hit and root are what
\* Platform::window_from_point and Platform::root_ancestor answer when asked
\* (Err: the call fails)
FocusOnHover(is_mouse_down, focus_follows_cursor, hit, root) ==
  LET same == [result |-> "Ok", focused |-> focused,
               focus_change |-> pending_sync.focus_change,
               queries |-> <<>>, window |-> None]
  IN
  IF FocusIgnored(is_mouse_down, focus_follows_cursor) THEN same
  ELSE IF hit = Err
  THEN [same EXCEPT !.result = "Err", !.queries = <<"window_from_point">>]
  ELSE IF root = Err
  THEN [same EXCEPT !.result = "Err",
                    !.queries = <<"window_from_point", "root_ancestor">>]
  ELSE LET on == HoverOnWindow(WindowFromNative(root)) IN
       [result |-> on.result, focused |-> on.focused,
        focus_change |-> on.focus_change,
        queries |-> <<"window_from_point", "root_ancestor">>,
        window |-> WindowFromNative(root)]

\* the handlers handle_mouse_move invokes, in order
MouseMoveCalls == <<"handle_focus_on_hover">>

\* handle_mouse_move(event, state, config)
HandleMouseMove(point, is_mouse_down, focus_follows_cursor, hit, root) ==
  LET out == FocusOnHover(is_mouse_down, focus_follows_cursor, hit, root) IN
  /\ focused' = out.focused
  /\ pending_sync' = [pending_sync EXCEPT !.focus_change = out.focus_change]
  /\ lastEvent' = [NoEvent EXCEPT
                     !.handler = "handle_mouse_move", !.point = point,
                     !.is_mouse_down = is_mouse_down,
                     !.ffc = focus_follows_cursor,
                     !.result = out.result, !.calls = MouseMoveCalls,
                     !.queries = out.queries, !.hit = hit,
                     !.root = root, !.window = out.window,
                     !.pre = Snapshot]
  /\ UNCHANGED <<alt_snap, managed, window_state>>
  /\ UNCHANGED treeVars
  /\ UNCHANGED nativeVars

\* old_mouse_position.clone().unwrap_or(event.point.clone())
OldMousePos(point) ==
  IF alt_snap.old_mouse_position = NoPoint THEN point
  ELSE alt_snap.old_mouse_position

\* delta_mouse_pos: event.point - old_mouse_pos on both axes
DeltaMousePos(point) ==
  <<point[1] - OldMousePos(point)[1], point[2] - OldMousePos(point)[2]>>

\* the position handle_alt_snap passes to SetWindowPos
SnapTarget(point) == <<point[1] - 500, point[2] - 500>>

\* the is_mouse_down block of handle_alt_snap, with the answers of
\* window_from_point, DwmGetWindowAttribute and SetWindowPos; set_pos is the
\* window and position handed to SetWindowPos (<<>>: it is not called)
AltSnapDrag(point, hit, frame_ok, set_pos_ok) ==
  LET same == [result |-> "Ok", alt_snap |-> alt_snap, set_pos |-> <<>>,
               queries |-> <<>>]
  IN
  IF hit = Err
  THEN [same EXCEPT !.result = "Err", !.queries = <<"window_from_point">>]
  ELSE IF ~frame_ok
  THEN [same EXCEPT !.result = "Err",
                    !.queries = <<"window_from_point",
                                  "DwmGetWindowAttribute">>]
  ELSE IF ~set_pos_ok
  THEN [same EXCEPT !.result = "Err",
                    !.alt_snap = [alt_snap EXCEPT !.is_currently_moving = TRUE],
                    !.set_pos = <<hit>> \o SnapTarget(point),
                    !.queries = <<"window_from_point",
                                  "DwmGetWindowAttribute", "SetWindowPos">>]
  ELSE [same EXCEPT
                    !.alt_snap = [alt_snap EXCEPT !.is_currently_moving = TRUE],
                    !.set_pos = <<hit>> \o SnapTarget(point),
                    !.queries = <<"window_from_point",
                                  "DwmGetWindowAttribute", "SetWindowPos">>]

\* the button test dropped: every event enters the drag block
AltSnapActiveAlways(is_mouse_down) == TRUE

\* whether handle_alt_snap enters its drag block
AltSnapActive(is_mouse_down) == is_mouse_down

\* the point never stored: old_mouse_position keeps its value
StoredMousePosStale(point) == alt_snap.old_mouse_position

\* the point handle_alt_snap stores into old_mouse_position before Ok(())
StoredMousePos(point) == point

\* handle_alt_snap(event, state); modifier is whether the designated key is
\* held (the handler does not ask), hit, frame and set_pos_ok are the answers
\* of window_from_point, DwmGetWindowAttribute (NoPoint: it fails) and
\* SetWindowPos
HandleAltSnap(point, is_mouse_down, modifier, hit, frame, set_pos_ok) ==
  LET drag == IF AltSnapActive(is_mouse_down)
              THEN AltSnapDrag(point, hit, frame # NoPoint, set_pos_ok)
              ELSE [result |-> "Ok", alt_snap |-> alt_snap,
                    set_pos |-> <<>>, queries |-> <<>>]
  IN
  \* the answer of a call that is not made is not part of the event
  /\ ~AltSnapActive(is_mouse_down) => hit = Err
  /\ hit = Err => frame = NoPoint
  /\ frame = NoPoint => set_pos_ok
  /\ alt_snap' = IF drag.result = "Ok"
                 THEN [drag.alt_snap EXCEPT
                         !.old_mouse_position = StoredMousePos(point)]
                 ELSE drag.alt_snap
  /\ lastEvent' = [NoEvent EXCEPT
                     !.handler = "handle_alt_snap", !.point = point,
                     !.is_mouse_down = is_mouse_down,
                     !.result = drag.result,
                     !.calls = <<"handle_alt_snap">>,
                     !.queries = drag.queries, !.hit = hit,
                     !.set_pos = drag.set_pos,
                     !.modifier = modifier, !.frame = frame,
                     !.pre = Snapshot]
  /\ UNCHANGED <<focused, pending_sync, managed, window_state>>
  /\ UNCHANGED treeVars
  /\ UNCHANGED nativeVars

MouseNext ==
  \/ \E point \in Points, is_mouse_down \in BOOLEAN,
        focus_follows_cursor \in BOOLEAN,
        hit \in Handles \cup {Err}, root \in Handles \cup {Err} :
       HandleMouseMove(point, is_mouse_down, focus_follows_cursor, hit, root)
  \/ \E point \in Points, is_mouse_down \in BOOLEAN, modifier \in BOOLEAN,
        hit \in Handles \cup {Err}, frame \in Frames \cup {NoPoint},
        set_pos_ok \in BOOLEAN :
       HandleAltSnap(point, is_mouse_down, modifier, hit, frame, set_pos_ok)

\* ------------------------------------------------------ native window
\* the cached metadata of a NativeWindow
Fields == {"title", "process_name", "class_name"}

\* the strings the platform answers with ("" for an invalid window)
Texts == {"", "app"}

\* an Option<String>: <<>> is None, <<t>> is Some(t)
NoText == <<>>

\* how far the platform lets a call get: the step that fails, or "ok"
Steps(field) ==
  IF field = "title" THEN {"ok"}
  ELSE IF field = "process_name"
  THEN {"open_fails", "query_fails", "close_fails", "utf16_fails", "ok"}
  ELSE {"class_fails", "ok"}

NoCall == [window |-> None, fn |-> "none", cached |-> FALSE,
           queried |-> FALSE, step |-> "none",
           result |-> "none", value |-> NoText,
           opened |-> FALSE, close_called |-> FALSE]

NativeInit ==
  native = [cache |-> [h \in Handles |-> [f \in Fields |-> NoText]],
            open |-> [h \in Handles |-> 0],
            pc |-> "idle", calls |-> 0, last |-> NoCall]

\* the body of the None arm up to the write of the cache: whether
\* OpenProcess succeeded, whether CloseHandle was called, and whether the
\* arm goes on to the write (it returns Err otherwise)
Retrieve(field, step) ==
  [opened |-> field = "process_name" /\ step # "open_fails",
   close_called |-> field = "process_name"
                    /\ step \in {"close_fails", "utf16_fails", "ok"},
   writes |-> step = "ok"]

\* the read guards on a field's lock held by the caller when it asks for
\* the write lock: the guard taken at the top of the getter lives to the
\* end of the function
GuardsHeldAtWrite(field) == 1

\* self.<field>.write().unwrap() = Some(text): granted when no read guard is
\* held; asked by a thread that holds one it blocks forever or panics
WriteOutcomes(field) ==
  IF GuardsHeldAtWrite(field) = 0 THEN {"stored"} ELSE {"blocked", "panicked"}

\* title(), process_name() or class_name() of the window h: step is how far
\* the platform lets it get, text what the platform answers, lock what the
\* write lock does
NativeCall(h, field, step, text, lock) ==
  /\ native.pc = "idle"
  /\ native.calls < MaxCalls
  /\ step \in Steps(field)
  /\ lock \in WriteOutcomes(field)
  /\ LET got == Retrieve(field, step)
         call == [NoCall EXCEPT !.window = h, !.fn = field] IN
     IF native.cache[h][field] # NoText
     THEN \* the Some arm: the stored value, no platform call
          /\ step = "ok" /\ text = "" /\ lock \in {"stored", "blocked"}
          /\ native' = [native EXCEPT
               !.calls = @ + 1,
               !.last = [call EXCEPT !.cached = TRUE, !.result = "Ok",
                                     !.value = native.cache[h][field]]]
     ELSE IF ~got.writes
     THEN \* a `?` or the explicit return of the None arm
          /\ text = "" /\ lock \in {"stored", "blocked"}
          /\ native' = [native EXCEPT
               !.calls = @ + 1,
               !.open[h] = IF got.opened /\ ~got.close_called
                           THEN @ + 1 ELSE @,
               !.last = [call EXCEPT !.queried = TRUE, !.result = "Err",
                                     !.step = step,
                                     !.opened = got.opened,
                                     !.close_called = got.close_called]]
     ELSE IF lock = "stored"
     THEN /\ native' = [native EXCEPT
               !.calls = @ + 1,
               !.cache[h][field] = <<text>>,
               !.last = [call EXCEPT !.queried = TRUE, !.result = "Ok",
                                     !.step = step,
                                     !.value = <<text>>,
                                     !.opened = got.opened,
                                     !.close_called = got.close_called]]
     ELSE \* the call never returns
          /\ native' = [native EXCEPT
               !.calls = @ + 1,
               !.pc = lock,
               !.last = [call EXCEPT !.queried = TRUE, !.result = lock,
                                     !.step = step,
                                     !.value = <<text>>,
                                     !.opened = got.opened,
                                     !.close_called = got.close_called]]
  /\ UNCHANGED manage
  /\ UNCHANGED treeVars
  /\ UNCHANGED mouseVars

NativeNext ==
  \E h \in Handles, field \in Fields,
     step \in {"open_fails", "query_fails", "close_fails", "utf16_fails",
               "class_fails", "ok"},
     text \in Texts, lock \in {"stored", "blocked", "panicked"} :
    NativeCall(h, field, step, text, lock)

\* ------------------------------------------------------- is_manageable
\* the bits of GWL_STYLE the code tests; WS_CAPTION is WS_BORDER | WS_DLGFRAME
StyleBits == {"WS_CHILD", "WS_BORDER", "WS_DLGFRAME"}
WS_CHILD == {"WS_CHILD"}
WS_CAPTION == {"WS_BORDER", "WS_DLGFRAME"}

\* the bits of GWL_EXSTYLE the code tests
ExStyleBits == {"WS_EX_NOACTIVATE", "WS_EX_TOOLWINDOW"}
WS_EX_NOACTIVATE == {"WS_EX_NOACTIVATE"}
WS_EX_TOOLWINDOW == {"WS_EX_TOOLWINDOW"}

\* what DwmGetWindowAttribute(DWMWA_CLOAKED) leaves in `cloaked`: Err is a
\* failed query, the others the value written
CloakedAnswers == {Err, 0, 1, 2}

\* what the platform answers about one window
ManageInputs ==
  [is_window_visible : BOOLEAN, cloaked : CloakedAnswers,
   style : SUBSET StyleBits, ex_style : SUBSET ExStyleBits,
   owner : Handles \cup {None}, done : {FALSE}, result : {FALSE}]

\* no window asked about
NoManage ==
  [is_window_visible |-> FALSE, cloaked |-> 0, style |-> {}, ex_style |-> {},
   owner |-> None, done |-> FALSE, result |-> FALSE]

\* (current_style & style.0) != 0
HasWindowStyle(w, style) == (w.style \cap style) # {}

HasWindowStyleExAllBits(w, style) == style \subseteq w.ex_style

\* (current_style & style.0) != 0
HasWindowStyleEx(w, style) == (w.ex_style \cap style) # {}

\* cloaked starts at 0, the result of the query is dropped
IsCloaked(w) == (IF w.cloaked = Err THEN 0 ELSE w.cloaked) # 0

IsVisible(w) == w.is_window_visible /\ ~IsCloaked(w)

IsManageable(w) ==
  LET is_application_window ==
        /\ ~HasWindowStyle(w, WS_CHILD)
        /\ ~HasWindowStyleEx(w, WS_EX_NOACTIVATE \cup WS_EX_TOOLWINDOW)
      is_menu_window == w.owner # None /\ ~HasWindowStyle(w, WS_CAPTION)
  IN IF ~IsVisible(w) THEN FALSE
     ELSE IF ~is_application_window THEN FALSE
     ELSE ~is_menu_window

\* window.is_manageable()
IsManageableCall ==
  /\ ~manage.done
  /\ manage' = [manage EXCEPT !.done = TRUE, !.result = IsManageable(manage)]
  /\ UNCHANGED native
  /\ UNCHANGED treeVars
  /\ UNCHANGED mouseVars

ManageNext == IsManageableCall

Init == TreeInit /\ MouseInit /\ NativeInit /\ manage = NoManage

\* the tree operations on a freshly constructed window manager
InitTree == Init /\ managed = {} /\ focused = None

Next == TreeNext \/ MouseNext \/ NativeNext \/ ManageNext

SpecTree == InitTree /\ [][TreeNext]_vars

SpecMouse == Init /\ [][MouseNext]_vars

\* drag/snap handling alone, every window managed and tiled
InitDrag == Init /\ managed = Handles /\ focused = WorkspaceId

DragNext ==
  \E point \in Points, is_mouse_down \in BOOLEAN, modifier \in BOOLEAN,
     hit \in Handles \cup {Err}, frame \in Frames \cup {NoPoint},
     set_pos_ok \in BOOLEAN :
    HandleAltSnap(point, is_mouse_down, modifier, hit, frame, set_pos_ok)

SpecDrag == InitDrag /\ [][DragNext]_vars

\* the getters of freshly constructed NativeWindows, nothing else running
InitNative == Init
                   /\ managed = Handles /\ focused = WorkspaceId

SpecNative == InitNative /\ [][NativeNext]_vars

\* is_manageable() asked of one window, for every answer of the platform
InitManageable ==
  /\ TreeInit /\ MouseInit /\ NativeInit
  /\ managed = {} /\ focused = None
  /\ manage \in ManageInputs

SpecManageable == InitManageable /\ [][ManageNext]_vars

Spec == Init /\ [][Next]_vars

\* ------------------------------------------------------------ properties
\* the last tree operation was an insert that returned
Inserted == lastOp.op = "insert" /\ lastOp.result = "ok"

\* the last pointer event went through handle_mouse_move
MouseMoved == lastEvent.handler = "handle_mouse_move"

\* the focus cursor and the focus flag are what they were before the event
FocusUntouched ==
  /\ focused = lastEvent.pre.focused
  /\ pending_sync.focus_change = lastEvent.pre.focus_change

\* C1: after insert_tiling_child(parent, index, child) with index within the
\* children and child detached beforehand, child is at position index of
\* parent's children and child's stored parent reference is parent.
C1_InsertSetsParent ==
  (Inserted /\ lastOp.detached) =>
    /\ children[lastOp.target][lastOp.index + 1] = lastOp.child
    /\ parent[lastOp.child] = lastOp.target

\* C2: after any sequence of inserts of detached children, a container c
\* stores parent p if and only if c is in p's children sequence.
C2_ParentChildConsistency ==
  conforming =>
    \A c \in Containers, p \in Containers : (parent[c] = p) <=> Owns(p, c)

RECURSIVE ParentChain(_, _)
\* the containers met from c in 1..n steps along stored parent references
ParentChain(c, n) ==
  IF n = 0 \/ parent[c] = None THEN {}
  ELSE {parent[c]} \cup ParentChain(parent[c], n - 1)

\* C3: after every sequence of insert/detach operations that respect the
\* precondition of insert, no container reaches itself by following stored
\* parent references one or more times.
C3_Acyclic ==
  conforming => \A c \in Containers : c \notin ParentChain(c, NumContainers)

\* C4: an insert of a child that is still owned, of a container into itself
\* or of an ancestor of the target fails with an error, and no container is
\* ever in the children of two parents or of itself.
C4_InvalidInsertFailsFast ==
  /\ (lastOp.op = "insert" /\ (~lastOp.detached \/ lastOp.ancestor))
       => lastOp.result # "ok"
  /\ \A c \in Containers : Cardinality(Owners(c)) <= 1 /\ ~Owns(c, c)

\* C5: every pointer-move event passed to handle_mouse_move invokes drag/snap
\* handling first and focus-follow handling second.
C5_DragThenFocus ==
  MouseMoved =>
    /\ Len(lastEvent.calls) >= 1
    /\ lastEvent.calls[1] = "handle_alt_snap"
    /\ (Len(lastEvent.calls) >= 2 =>
          lastEvent.calls[2] = "handle_focus_on_hover")

\* C6: a pointer-move event with is_mouse_down = true leaves the focused
\* container and pending_sync.focus_change unchanged and returns Ok, whatever
\* is under the cursor and whatever focus_follows_cursor is.
C6_NoFocusWhileButtonDown ==
  (MouseMoved /\ lastEvent.is_mouse_down) =>
    FocusUntouched /\ lastEvent.result = "Ok"

\* C6 witness: button down over another managed window, focus-follow enabled
C6_Witness ==
  /\ MouseMoved /\ lastEvent.is_mouse_down /\ lastEvent.ffc
  /\ lastEvent.hit # Err /\ lastEvent.root \in managed
  /\ lastEvent.pre.focused # None /\ lastEvent.pre.focused # lastEvent.root
  /\ focused = lastEvent.pre.focused

\* the event resolved a managed window under the pointer, button up,
\* focus-follow enabled, with some container focused
Hovered ==
  /\ MouseMoved /\ ~lastEvent.is_mouse_down /\ lastEvent.ffc
  /\ lastEvent.hit # Err /\ lastEvent.root \in managed
  /\ lastEvent.pre.focused # None

\* the same, with no container focused
HoveredUnfocused ==
  /\ MouseMoved /\ ~lastEvent.is_mouse_down /\ lastEvent.ffc
  /\ lastEvent.hit # Err /\ lastEvent.root \in managed
  /\ lastEvent.pre.focused = None

\* C7: button up, focus_follows_cursor = true: when the managed window under
\* the pointer (the Window of its root ancestor) is not the focused container
\* it becomes focused and focus_change becomes true; when it is the focused
\* container neither the focus nor focus_change is modified.
C7_HoverFocuses ==
  Hovered =>
    IF lastEvent.root # lastEvent.pre.focused
    THEN focused = lastEvent.root /\ pending_sync.focus_change
    ELSE FocusUntouched

\* C7 witness: A focused, the pointer over a window owned by another window B
C7_Witness ==
  /\ Hovered
  /\ lastEvent.hit # lastEvent.root
  /\ lastEvent.root # lastEvent.pre.focused
  /\ ~lastEvent.pre.focus_change
  /\ focused = lastEvent.root

\* C8: with focus_follows_cursor = false a pointer-move event, button up or
\* down, leaves the focused container and pending_sync.focus_change as they
\* were and makes no platform query.
C8_DisabledIsInert ==
  (MouseMoved /\ ~lastEvent.ffc) =>
    FocusUntouched /\ lastEvent.queries = <<>>

\* C8 witness: button up over another managed window, feature disabled
C8_Witness ==
  /\ MouseMoved /\ ~lastEvent.ffc /\ ~lastEvent.is_mouse_down
  /\ lastEvent.hit # Err /\ lastEvent.root \in managed
  /\ lastEvent.pre.focused # None /\ lastEvent.pre.focused # lastEvent.root
  /\ ~pending_sync.focus_change

\* C9: whenever a pointer event returns an error, the process-scoped state
\* (drag session, focus cursor, pending_sync) equals its value before it.
C9_FailureAtomic ==
  lastEvent.result = "Err" => Snapshot = lastEvent.pre

\* the event got as far as the lookups of focus-follow handling
Looked == MouseMoved /\ ~lastEvent.is_mouse_down /\ lastEvent.ffc

\* the root ancestor under the pointer has no Window in the index
LookupMiss ==
  Looked /\ lastEvent.hit # Err /\ lastEvent.root # Err
         /\ lastEvent.root \notin managed

Snapped == lastEvent.handler = "handle_alt_snap"

\* a qualifying drag event (modifier and button held) that returned Ok
DragOk ==
  /\ Snapped /\ lastEvent.is_mouse_down /\ lastEvent.modifier
  /\ lastEvent.result = "Ok"

\* current point minus the point sampled before the event, zero on the
\* first sample
EventDelta ==
  IF lastEvent.pre.old_mouse_position = NoPoint THEN <<0, 0>>
  ELSE <<lastEvent.point[1] - lastEvent.pre.old_mouse_position[1],
         lastEvent.point[2] - lastEvent.pre.old_mouse_position[2]>>

\* C11: on every qualifying drag event the window's new position is its
\* current frame translated by delta = point - last sampled point (zero on
\* the first sample) on both axes.
C11_DragDelta ==
  DragOk =>
    lastEvent.set_pos = <<lastEvent.hit,
                          lastEvent.frame[1] + EventDelta[1],
                          lastEvent.frame[2] + EventDelta[2]>>

\* C12: on the first qualifying drag event of a session (is_currently_moving
\* false) the dragged window goes from Tiling to Floating and
\* is_currently_moving becomes true; on the later events of the session it
\* is already Floating.
C12_PromotedOnce ==
  DragOk =>
    /\ window_state[lastEvent.hit] = "Floating"
    /\ alt_snap.is_currently_moving

\* the AltSnap value of no session
NoSession == [old_mouse_position |-> NoPoint, is_currently_moving |-> FALSE]

\* C13: a pointer event with the primary button released resets the drag
\* session: is_currently_moving = false and old_mouse_position = none.
C13_ReleaseResets ==
  (Snapped /\ ~lastEvent.is_mouse_down) => alt_snap = NoSession

\* C14: a pointer event with the button held and the modifier not pressed
\* moves no window, issues no positioning call and does not set
\* is_currently_moving.
C14_NeedsModifier ==
  (Snapped /\ lastEvent.is_mouse_down /\ ~lastEvent.modifier) =>
    /\ lastEvent.set_pos = <<>>
    /\ alt_snap.is_currently_moving = lastEvent.pre.is_currently_moving

\* C15: after every pointer event handled by drag/snap handling, active or
\* not, old_mouse_position equals that event's point.
C15_PointAlwaysStored ==
  Snapped => alt_snap.old_mouse_position = lastEvent.point

\* C15 amended: after every pointer event that drag/snap handling returns Ok
\* for, active or not, old_mouse_position equals that event's point; an
\* event that returns an error leaves old_mouse_position as it was.
C15_PointStoredOnOk ==
  Snapped =>
    IF lastEvent.result = "Ok"
    THEN alt_snap.old_mouse_position = lastEvent.point
    ELSE alt_snap.old_mouse_position = lastEvent.pre.old_mouse_position

\* C15 witness: an active drag event that moves on from another sample
C15_Witness ==
  /\ Snapped /\ lastEvent.is_mouse_down /\ lastEvent.result = "Ok"
  /\ lastEvent.pre.old_mouse_position # NoPoint
  /\ lastEvent.pre.old_mouse_position # lastEvent.point
  /\ alt_snap.old_mouse_position = lastEvent.point

\* C16: every qualifying drag event that succeeds adds the dragged window to
\* pending_sync.containers_to_redraw and sets pending_sync.focus_change.
C16_DragEnqueues ==
  DragOk =>
    /\ lastEvent.hit \in pending_sync.containers_to_redraw
    /\ pending_sync.focus_change

\* C20: a pointer event with is_mouse_down = false handled by
\* handle_alt_snap makes no platform call, returns Ok and changes nothing
\* but old_mouse_position, which becomes the event's point.
C20_ButtonUpOnlySamples ==
  (Snapped /\ ~lastEvent.is_mouse_down) =>
    /\ lastEvent.result = "Ok"
    /\ lastEvent.queries = <<>> /\ lastEvent.set_pos = <<>>
    /\ Snapshot = [lastEvent.pre EXCEPT
                     !.old_mouse_position = lastEvent.point]

\* C20 witness: button up in the middle of a session, at a new point
C20_Witness ==
  /\ Snapped /\ ~lastEvent.is_mouse_down
  /\ lastEvent.pre.is_currently_moving /\ alt_snap.is_currently_moving
  /\ lastEvent.pre.old_mouse_position # NoPoint
  /\ lastEvent.pre.old_mouse_position # lastEvent.point
  /\ alt_snap.old_mouse_position = lastEvent.point

\* ------------------------------------------------ native window properties
\* a getter of a window has been called
Called == native.last.fn # "none"

\* the last call came back to its caller
Returned == native.last.result \in {"Ok", "Err"}

\* C17: a getter called on an empty cache returns (it neither blocks nor
\* panics on the write lock), a successful one returns the platform's value
\* and leaves it stored, and a call on a populated cache returns the stored
\* value without a platform query
C17_LazyCache ==
  Called =>
    /\ Returned
    /\ native.last.cached => ~native.last.queried
    /\ (native.last.queried /\ native.last.result = "Ok") =>
         native.cache[native.last.window][native.last.fn] = native.last.value

\* C19: a process handle opened by process_name() is closed before the call
\* returns, on every path, and an error leaves the cache empty
C19_HandleClosed ==
  /\ \A h \in Handles : native.open[h] = 0
  /\ (native.last.fn = "process_name" /\ native.last.opened) =>
       native.last.close_called
  /\ (native.last.fn = "process_name" /\ native.last.result = "Err") =>
       native.cache[native.last.window]["process_name"] = NoText

====
